---- MODULE Spec2Model ----
(***************************************************************************)
(* CloseSolidHoles (src/ops/close_through_holes.py): detection of concave  *)
(* patches by flood-fill over the selected faces of each mesh in edit      *)
(* mode, and closing of the patches whose diameter lies within the limits. *)
(*                                                                         *)
(* Lengths and coordinates are integers in units of 1e-5, the tolerance of *)
(* the concavity test, so that a dot product equal to the tolerance is a   *)
(* case of the model.                                                      *)
(***************************************************************************)
EXTENDS Integers, Sequences, FiniteSets, TLC

\* Faces of every mesh of the model (a strip of quads).
NumFaces == 4
\* Objects in edit mode in one context.
MaxMeshes == 2
\* Largest component of a value passed to the limits setter.
MaxLimit == 3
\* The tolerance 1e-5 of the concavity test, the unit of length.
Eps == 1

VARIABLES
    polys,      \* data.polygons of the mesh under detection: face -> record
    det,        \* locals of _find_concave_patches for that mesh
    value,      \* the value the limits setter was last called with
    limits,     \* CloseSolidHoles._limits
    meshes,     \* CloseSolidHoles._meshes
    objs,       \* number of objects of the context of the latest invoke
    nverts,     \* per object, the number of vertices of its edit mesh
    pc,         \* position of the operator: "idle", "detect", "apply"
    via,        \* entry point of the running call: "invoke", "execute"
    k,          \* index of the mesh the running loop is at
    p,          \* index of the patch the loop of execute is at
    dead,       \* indices in bverts of the vertices removed from the mesh
    closed,     \* per cached mesh, the patches merged and dissolved by the call
    committed,  \* per cached mesh, whether the call reached update_edit_mesh
    fresh       \* no execute has finished since the detect that filled the cache

vars == <<polys, det, value, limits, meshes, objs, nverts, pc, via, k, p, dead,
          closed, committed, fresh>>
detVars == <<polys, det>>
limVars == <<value, limits>>
opVars == <<value, limits, meshes, objs, nverts, pc, via, k, p, dead, closed,
            committed, fresh>>

-----------------------------------------------------------------------------
(* The mesh.                                                               *)

Faces == 0 .. NumFaces - 1

\* Face f of the strip has the vertices 2f .. 2f+3; it shares the edge
\* (2f, 2f+1) with face f-1 and the edge (2f+2, 2f+3) with face f+1.
Vertices(f) == {2 * f, 2 * f + 1, 2 * f + 2, 2 * f + 3}

\* Vertices of a mesh of the strip.
VertCount == 2 * NumFaces + 2

\* For each loop of face f, the face of link_loop_radial_next. On a boundary
\* edge the radial cycle holds one loop, so the next loop is the loop itself
\* and its face is f.
Loops(f) ==
    << IF f = 0 THEN f ELSE f - 1,
       f,
       IF f = NumFaces - 1 THEN f ELSE f + 1,
       f >>

Normals == { <<1, 0, 0>>, <<0, 0, 1>> }
Centers == { <<0, 0, 0>>, <<1, 0, 0>>, <<2, 0, 0>>, <<0, 0, 2>> }

\* An unselected face is never read beyond its selection flag: one geometry
\* stands for all, a center that is concave from a face at the origin.
Unselected == [select |-> FALSE, normal |-> <<0, 0, 1>>, center |-> <<2, 0, 0>>]
FaceVals ==
    {Unselected} \cup [select : {TRUE}, normal : Normals, center : Centers]
Meshes == [Faces -> FaceVals]

Dot(a, b) == a[1] * b[1] + a[2] * b[2] + a[3] * b[3]
Sub(a, b) == <<a[1] - b[1], a[2] - b[2], a[3] - b[3]>>

\* n.dot(centrs[i2] - c) > 1e-5
Concave(m, f, f2) == Dot(m[f].normal, Sub(m[f2].center, m[f].center)) > Eps

-----------------------------------------------------------------------------
(* _find_concave_patches: the flood-fill over the faces of one mesh.       *)

\* flags = get_scalars(polys): the selection of each face.
GetScalars(m) == [f \in Faces |-> m[f].select]

NoMark(fl, f) == fl
\* flags[i] = False
MarkVisited(fl, f) == [fl EXCEPT ![f] = FALSE]

InitDet(m) ==
    [ flags |-> GetScalars(m),
      i |-> 0,
      stack |-> <<>>,
      findcs |-> <<>>,
      patches |-> <<>>,
      patches2 |-> <<>>,
      at |-> "for",
      pushed |-> [f \in Faces |-> 0],
      discarded |-> {} ]

\* One iteration of `for i, new in enumerate(flags)`, up to the while loop.
\* The iteration reads the array as it is when it reaches index i.
ForStep(m, d) ==
    IF d.i >= NumFaces
    THEN [d EXCEPT !.at = "summ"]
    ELSE IF ~d.flags[d.i]
    THEN [d EXCEPT !.i = d.i + 1]
    ELSE [d EXCEPT !.flags = MarkVisited(d.flags, d.i),
                   !.stack = <<d.i>>,
                   !.findcs = <<>>,
                   !.pushed[d.i] = d.pushed[d.i] + 1,
                   !.at = "while"]

\* `for l in f.loops` from loop j on: pushes the unvisited concave neighbours.
RECURSIVE PushLoops(_, _, _, _)
PushLoops(m, d, f, j) ==
    IF j > Len(Loops(f))
    THEN d
    ELSE LET i2 == Loops(f)[j]
         IN IF d.flags[i2] /\ Concave(m, f, i2)
            THEN PushLoops(m,
                           [d EXCEPT !.flags = MarkVisited(d.flags, i2),
                                     !.stack = Append(d.stack, i2),
                                     !.pushed[i2] = d.pushed[i2] + 1],
                           f, j + 1)
            ELSE PushLoops(m, d, f, j + 1)

RecordsSingletons(findcs) == Len(findcs) > 0
\* len(findcs) > 1
IsPatch(findcs) == Len(findcs) > 1

\* One iteration of `while stack`, or the end of the loop and of the
\* iteration of the for loop around it.
WhileStep(m, d) ==
    IF d.stack = <<>>
    THEN [d EXCEPT !.patches = IF IsPatch(d.findcs)
                                THEN Append(d.patches, d.findcs)
                                ELSE d.patches,
                   !.discarded = IF IsPatch(d.findcs)
                                 THEN d.discarded
                                 ELSE d.discarded \cup {d.findcs[1]},
                   !.i = d.i + 1,
                   !.at = "for"]
    ELSE LET f == d.stack[Len(d.stack)]
         IN PushLoops(m,
                      [d EXCEPT !.stack = SubSeq(d.stack, 1, Len(d.stack) - 1),
                                !.findcs = Append(d.findcs, f)],
                      f, 1)

-----------------------------------------------------------------------------
(* _find_concave_patches: the summary of each patch.                       *)

Abs(x) == IF x < 0 THEN -x ELSE x

\* numpy.argmax of a sequence: the zero-based index of the first maximum.
ArgMax(s) ==
    (CHOOSE j \in 1 .. Len(s) :
        /\ \A l \in 1 .. Len(s) : s[l] <= s[j]
        /\ \A l \in 1 .. j - 1 : s[l] < s[j]) - 1

\* numpy.bincount of a sequence of naturals: the count of each value from 0
\* to the largest one.
BinCount(s) ==
    LET top == CHOOSE x \in {s[j] : j \in 1 .. Len(s)} :
                   \A j \in 1 .. Len(s) : s[j] <= x
    IN [v \in 1 .. top + 1 |-> Cardinality({j \in 1 .. Len(s) : s[j] = v - 1})]

\* dirs = np.argmax(np.abs(normals[findcs]), axis=1)
Dirs(m, findcs) ==
    [j \in 1 .. Len(findcs) |->
        LET n == m[findcs[j]].normal
        IN ArgMax(<<Abs(n[1]), Abs(n[2]), Abs(n[3])>>)]

\* The index np.bincount(dirs).argmax() that dirs is read at.
DirecIndex(dirs) == ArgMax(BinCount(dirs))

\* The extent of a sequence of points along the zero-based axis a.
Bounds(cs, a) ==
    LET xs == {cs[j][a + 1] : j \in 1 .. Len(cs)}
        hi == CHOOSE x \in xs : \A y \in xs : y <= x
        lo == CHOOSE x \in xs : \A y \in xs : x <= y
    IN hi - lo

\* vindcs: the vertices of the faces of the patch, without duplicates.
Vindcs(findcs) == UNION {Vertices(findcs[j]) : j \in 1 .. Len(findcs)}

\* patches2 of a list of patches; raised when dirs is read past its end
\* (IndexError), which ends _find_concave_patches and its caller.
RECURSIVE Patches2(_, _)
Patches2(m, ps) ==
    IF ps = <<>>
    THEN [raised |-> FALSE, patches |-> <<>>]
    ELSE LET findcs == Head(ps)
             dirs == Dirs(m, findcs)
             at == DirecIndex(dirs)
         IN IF at >= Len(dirs)
            THEN [raised |-> TRUE, patches |-> <<>>]
            ELSE LET direc == dirs[at + 1]
                     centrs == [j \in 1 .. Len(findcs) |-> m[findcs[j]].center]
                     rest == Patches2(m, Tail(ps))
                 IN [raised |-> rest.raised,
                     patches |-> IF rest.raised
                                 THEN <<>>
                                 ELSE <<[vindcs |-> Vindcs(findcs),
                                         diam |-> Bounds(centrs, direc)]>>
                                      \o rest.patches]

\* The for loop over the faces run to its end.
RECURSIVE RunFill(_, _)
RunFill(m, d) ==
    IF d.at = "summ"
    THEN d
    ELSE RunFill(m, IF d.at = "for" THEN ForStep(m, d) ELSE WhileStep(m, d))

\* What _find_concave_patches computes for one object.
FindConcavePatches(m) == Patches2(m, RunFill(m, InitDet(m)).patches)

-----------------------------------------------------------------------------
(* Detection of one mesh, step by step.                                    *)

NoDet ==
    [ flags |-> [f \in Faces |-> FALSE], i |-> 0, stack |-> <<>>,
      findcs |-> <<>>, patches |-> <<>>, patches2 |-> <<>>, at |-> "none",
      pushed |-> [f \in Faces |-> 0], discarded |-> {} ]

OpInit ==
    /\ value = <<0, 1>>
    /\ limits = <<0, 1>>
    /\ meshes = <<>>
    /\ objs = 0
    /\ nverts = [o \in 1 .. MaxMeshes |-> 0]
    /\ pc = "idle"
    /\ via = "none"
    /\ k = 1
    /\ p = 1
    /\ dead = {}
    /\ closed = [o \in 1 .. MaxMeshes |-> {}]
    /\ committed = [o \in 1 .. MaxMeshes |-> FALSE]
    /\ fresh = FALSE

DetectInit ==
    /\ polys \in Meshes
    /\ det = InitDet(polys)
    /\ OpInit

ForLoop ==
    /\ det.at = "for"
    /\ det' = ForStep(polys, det)
    /\ UNCHANGED <<polys, opVars>>

WhileLoop ==
    /\ det.at = "while"
    /\ det' = WhileStep(polys, det)
    /\ UNCHANGED <<polys, opVars>>

Summarize ==
    /\ det.at = "summ"
    /\ LET r == Patches2(polys, det.patches)
       IN det' = [det EXCEPT !.patches2 = r.patches,
                             !.at = IF r.raised THEN "raised" ELSE "done"]
    /\ UNCHANGED <<polys, opVars>>

DetectNext == ForLoop \/ WhileLoop \/ Summarize

DetectSpec == DetectInit /\ [][DetectNext]_vars

-----------------------------------------------------------------------------
(* The operator: the limits setter, invoke and execute.                    *)

\* min(value)
Min(v) == IF v[1] <= v[2] THEN v[1] ELSE v[2]

ClampMaxToMin(v) == <<v[1], IF v[2] < v[1] THEN v[1] ELSE v[2]>>
\* (min(value), value[1])
ClampLimits(v) == <<Min(v), v[2]>>

LimitVals == 0 .. MaxLimit

\* What one iteration of the loop over the objects can compute, over the
\* meshes an object can have.
DetectResults == {FindConcavePatches(m) : m \in Meshes}

NotCleared(ms) == ms
\* self._meshes.clear()
Cleared(ms) == <<>>

AfterFirstObject == k > 1
\* The loop over context.objects_in_mode_unique_data has run to its end, and
\* invoke goes on to execute.
DetectComplete == k > objs

\* mind < diam < maxd
InRange(lim, diam) == lim[1] < diam /\ diam < lim[2]

\* limits = value
SetLimits(v) ==
    /\ pc = "idle"
    /\ value' = v
    /\ limits' = ClampLimits(v)
    /\ UNCHANGED <<detVars, meshes, objs, nverts, pc, via, k, p, dead, closed,
                   committed, fresh>>

\* invoke, up to the loop over the objects of the context, n of them.
Invoke(n) ==
    /\ pc = "idle"
    /\ pc' = "detect"
    /\ via' = "invoke"
    /\ objs' = n
    /\ meshes' = Cleared(meshes)
    /\ nverts' = [o \in 1 .. MaxMeshes |-> 0]
    /\ k' = 1
    /\ p' = 1
    /\ dead' = {}
    /\ closed' = [o \in 1 .. MaxMeshes |-> {}]
    /\ committed' = [o \in 1 .. MaxMeshes |-> FALSE]
    /\ fresh' = TRUE
    /\ UNCHANGED <<detVars, value, limits>>

\* One iteration of the loop over the objects: the mesh of object k is
\* segmented and summarized, and appended to the cache.
DetectMesh ==
    /\ pc = "detect"
    /\ ~DetectComplete
    /\ \E r \in DetectResults :
          /\ ~r.raised
          /\ meshes' = Append(meshes, [data |-> k, patches |-> r.patches])
    /\ nverts' = [nverts EXCEPT ![k] = VertCount]
    /\ k' = k + 1
    /\ UNCHANGED <<detVars, limVars, objs, pc, via, p, dead, closed, committed,
                   fresh>>

\* The summary of the mesh of object k raises: invoke ends with the
\* exception, the cache holding the objects before k.
DetectRaise ==
    /\ pc = "detect"
    /\ ~DetectComplete
    /\ \E r \in DetectResults : r.raised
    /\ nverts' = [nverts EXCEPT ![k] = VertCount]
    /\ pc' = "idle"
    /\ via' = "none"
    /\ k' = 1
    /\ UNCHANGED <<detVars, limVars, meshes, objs, p, dead, closed, committed,
                   fresh>>

\* return self.execute(context)
InvokeExecute ==
    /\ pc = "detect"
    /\ DetectComplete
    /\ pc' = "apply"
    /\ k' = 1
    /\ UNCHANGED <<detVars, limVars, meshes, objs, nverts, via, p, dead, closed,
                   committed, fresh>>

\* execute called on its own (the operator run without invoke).
Execute ==
    /\ pc = "idle"
    /\ pc' = "apply"
    /\ via' = "execute"
    /\ k' = 1
    /\ p' = 1
    /\ dead' = {}
    /\ closed' = [o \in 1 .. MaxMeshes |-> {}]
    /\ committed' = [o \in 1 .. MaxMeshes |-> FALSE]
    /\ UNCHANGED <<detVars, limVars, meshes, objs, nverts, fresh>>

AtPatch == pc = "apply" /\ k <= Len(meshes) /\ p <= Len(meshes[k].patches)

\* bverts[vindcs] reads past the end of bverts (IndexError), or pointmerge
\* is handed a vertex already removed from the mesh: both raise.
MergeRaises(pt, o) ==
    \/ \E v \in pt.vindcs : v >= nverts[o]
    \/ pt.vindcs \cap dead # {}

\* A patch outside the limits: continue.
SkipPatch ==
    /\ AtPatch
    /\ ~InRange(limits, meshes[k].patches[p].diam)
    /\ p' = p + 1
    /\ UNCHANGED <<detVars, limVars, meshes, objs, nverts, pc, via, k, dead,
                   closed, committed, fresh>>

\* pointmerge of the vertices of the patch, then dissolve_verts of the one
\* vertex left: every vertex of the patch is removed from the mesh.
ClosePatch ==
    /\ AtPatch
    /\ LET pt == meshes[k].patches[p]
       IN /\ InRange(limits, pt.diam)
          /\ ~MergeRaises(pt, meshes[k].data)
          /\ dead' = dead \cup pt.vindcs
    /\ closed' = [closed EXCEPT ![k] = closed[k] \cup {p}]
    /\ p' = p + 1
    /\ UNCHANGED <<detVars, limVars, meshes, objs, nverts, pc, via, k,
                   committed, fresh>>

\* The exception leaves execute: the mesh keeps what was removed from it,
\* update_edit_mesh is not reached, the meshes after it are not visited.
RaisePatch ==
    /\ AtPatch
    /\ LET pt == meshes[k].patches[p]
           o == meshes[k].data
       IN /\ InRange(limits, pt.diam)
          /\ MergeRaises(pt, o)
          /\ nverts' = [nverts EXCEPT ![o] = nverts[o] - Cardinality(dead)]
    /\ pc' = "idle"
    /\ via' = "none"
    /\ k' = 1
    /\ p' = 1
    /\ dead' = {}
    /\ fresh' = FALSE
    /\ UNCHANGED <<detVars, limVars, meshes, objs, closed, committed>>

\* bm.update_edit_mesh(mesh), and the next mesh of the cache.
UpdateEditMesh ==
    /\ pc = "apply"
    /\ k <= Len(meshes)
    /\ p > Len(meshes[k].patches)
    /\ LET o == meshes[k].data
       IN nverts' = [nverts EXCEPT ![o] = nverts[o] - Cardinality(dead)]
    /\ committed' = [committed EXCEPT ![k] = TRUE]
    /\ k' = k + 1
    /\ p' = 1
    /\ dead' = {}
    /\ UNCHANGED <<detVars, limVars, meshes, objs, pc, via, closed, fresh>>

\* return {'FINISHED'}
Finished ==
    /\ pc = "apply"
    /\ k > Len(meshes)
    /\ pc' = "idle"
    /\ via' = "none"
    /\ k' = 1
    /\ fresh' = FALSE
    /\ UNCHANGED <<detVars, limVars, meshes, objs, nverts, p, dead, closed,
                   committed>>

Init ==
    /\ polys = [f \in Faces |-> Unselected]
    /\ det = NoDet
    /\ OpInit

Next ==
    \/ \E v \in LimitVals \X LimitVals : SetLimits(v)
    \/ \E n \in 1 .. MaxMeshes : Invoke(n)
    \/ DetectMesh
    \/ DetectRaise
    \/ InvokeExecute
    \/ Execute
    \/ SkipPatch
    \/ ClosePatch
    \/ RaisePatch
    \/ UpdateEditMesh
    \/ Finished

Spec == Init /\ [][Next]_vars

-----------------------------------------------------------------------------
(* Properties of detection (DetectSpec).                                   *)

FacesOf(findcs) == {findcs[j] : j \in 1 .. Len(findcs)}

\* The for loop over the faces has run to its end.
FillDone == det.at \in {"summ", "done", "raised"}

\* C1: after the flood-fill, every face index appears in at most one
\* recorded patch, at most once inside it, and every face of a recorded
\* patch was selected when detection started.
C1_PatchesDisjointAndEligible ==
    FillDone =>
        LET ps == det.patches
        IN /\ \A a \in 1 .. Len(ps) :
                 \A x, y \in 1 .. Len(ps[a]) : x # y => ps[a][x] # ps[a][y]
           /\ \A a, b \in 1 .. Len(ps) :
                 a # b => FacesOf(ps[a]) \cap FacesOf(ps[b]) = {}
           /\ \A a \in 1 .. Len(ps) :
                 \A f \in FacesOf(ps[a]) : polys[f].select

\* Two patches were recorded from faces next to each other.
C1_Witness ==
    /\ det.at = "done"
    /\ Len(det.patches) = 2

\* C2: every recorded patch has at least 2 faces; a seed whose flood-fill
\* added no neighbour is discarded, stays marked visited and is in no patch
\* recorded later, nor in the one being filled.
C2_NoSingletonPatch ==
    /\ \A a \in 1 .. Len(det.patches) : Len(det.patches[a]) >= 2
    /\ \A f \in det.discarded :
          /\ ~det.flags[f]
          /\ \A a \in 1 .. Len(det.patches) : f \notin FacesOf(det.patches[a])
          /\ det.at = "while" =>
                f \notin FacesOf(det.findcs) \cup FacesOf(det.stack)

\* A seed was discarded and a patch was recorded after it from the face next
\* to it.
C2_Witness ==
    /\ det.at = "done"
    /\ \E f \in det.discarded :
          \E a \in 1 .. Len(det.patches) : det.patches[a][1] = f + 1

\* C8: two selected faces that share an edge and are concave from either
\* side are in the same recorded patch once detection is done.
C8_ConcaveFromEitherSideJoins ==
    det.at = "done" =>
        \A a, b \in Faces :
            ( /\ a # b
              /\ \E j \in 1 .. Len(Loops(a)) : Loops(a)[j] = b
              /\ polys[a].select /\ polys[b].select
              /\ Concave(polys, a, b) \/ Concave(polys, b, a) )
            => \E x \in 1 .. Len(det.patches) :
                   {a, b} \subseteq FacesOf(det.patches[x])

\* What is left of the pass: two for each face not yet visited, one for each
\* face on the stack, one for each index the for loop has not passed, and
\* the steps after the loop.
Measure(d) ==
    2 * Cardinality({f \in Faces : d.flags[f]}) + Len(d.stack)
      + (NumFaces - d.i)
      + (IF d.at \in {"for", "while"} THEN 2 ELSE IF d.at = "summ" THEN 1 ELSE 0)

\* C9: detection terminates: every face is pushed onto the stack at most
\* once over the pass, every step of the pass (an iteration of the while
\* loop, the end of the loop for a seed, an iteration of the for loop) lowers
\* a natural number bounded by the number of faces, and a step is there to
\* take until the loop over the faces has reached its end.
C9_DetectionTerminates ==
    /\ [](\A f \in Faces : det.pushed[f] <= 1)
    /\ [](Measure(det) >= 0 /\ Measure(det) <= 3 * NumFaces + 2)
    /\ [](~FillDone => ENABLED DetectNext)
    /\ [][Measure(det') < Measure(det)]_vars

\* The loop has ended after every face was pushed, in patches of several
\* faces.
C9_Witness ==
    /\ det.at = "summ"
    /\ \A f \in Faces : det.pushed[f] = 1
    /\ Len(det.patches) >= 1

-----------------------------------------------------------------------------
(* Properties of the operator (Spec).                                      *)

\* The call has merged and dissolved a patch, or committed a mesh.
Mutated ==
    \E o \in 1 .. MaxMeshes : closed[o] # {} \/ committed[o]

\* The patches of cached mesh j that lie within the limits.
InRangePatches(j) ==
    {x \in 1 .. Len(meshes[j].patches) :
        InRange(limits, meshes[j].patches[x].diam)}

\* C3: after any sequence of updates min <= max; an update with (a, b)
\* stores b as max, and stores b as min when b < a and a otherwise.
C3_LimitsClamped ==
    /\ limits[1] <= limits[2]
    /\ limits[2] = value[2]
    /\ limits[1] = IF value[2] < value[1] THEN value[2] ELSE value[1]

\* An update whose max lies below its min was stored.
C3_Witness ==
    /\ value[2] < value[1]
    /\ limits = <<value[2], value[2]>>

\* C4: the step of execute at a patch merges and dissolves it if and only if
\* its diameter lies strictly within the limits.
C4_ClosedIffInRange ==
    [][AtPatch =>
        (p \in closed'[k] <=> InRange(limits, meshes[k].patches[p].diam))]_vars

\* C5: when execute ends, every cached mesh other than the one it ended in
\* is committed with all its patches within the limits closed.
C5_OtherMeshesProcessed ==
    [][(pc = "apply" /\ pc' = "idle") =>
        \A j \in 1 .. Len(meshes) :
            j # k => committed'[j] /\ closed'[j] = InRangePatches(j)]_vars

\* C6: within one invoke, no mesh is mutated before every object of the
\* context has been segmented and summarized.
C6_DetectBeforeMutate ==
    (via = "invoke" /\ Mutated) => (pc = "apply" /\ Len(meshes) = objs)

\* invoke has closed a patch of the first of two meshes.
C6_Witness ==
    /\ via = "invoke"
    /\ objs = 2
    /\ closed[1] # {}
    /\ ~committed[1]

C10_MergedVerticesLive ==
    (AtPatch /\ InRange(limits, meshes[k].patches[p].diam)) =>
        meshes[k].patches[p].vindcs \cap dead = {}

====
